---- MODULE Spec2Model ----
(***************************************************************************)
(* Shape-level model of src/model/tempcnn.py: the construction of a        *)
(* TempConv (its name, its width lists, its three layer stacks and its     *)
(* position table) and the forward data path, followed on tensor shapes.   *)
(* Floating-point values are not modelled; every layer is the record of    *)
(* its constructor arguments, every tensor is its shape. All tensors are   *)
(* taken to be on one device (lines 30-33 place the table), and the model  *)
(* is in training mode, as nn.Module leaves it after construction.         *)
(***************************************************************************)
EXTENDS Integers, Sequences, FiniteSets, TLC

\* Bounds of the explored configurations and inputs.
MaxWidth == 3      \* layer widths and input_size of the construction runs: 1..MaxWidth
MaxLen == 2        \* length of nker and of nfc in the construction runs
MaxDec == 4        \* length of mlp4 in the decoder runs
MaxSeq == 2        \* seq_len in the construction runs
MaxDim == 2        \* every dimension of the forward runs: widths, seq_len, B, L, C

\* nn.Conv1d(..., kernel_size=3, padding=1)
kernel_size == 3
padding == 1

VARIABLES
    args,   \* the arguments of TempConv(...), as the caller passed them
    heap,   \* the list objects: heap[args.nker] and heap[args.nfc] are the caller's
    pc,     \* "new" | "built" | "failed" (__init__ raised)
    self,   \* the TempConv object
    res     \* the outcome of the last forward call

vars == <<args, heap, pc, self, res>>

-----------------------------------------------------------------------------
\* Values

None == [isNone |-> TRUE, items |-> <<>>]
List(s) == [isNone |-> FALSE, items |-> s]

Layer(op, a, b) == [op |-> op, in_f |-> a, out_f |-> b]
Conv1d(a, b) == Layer("Conv1d", a, b)
Linear(a, b) == Layer("Linear", a, b)
BatchNorm1d(n) == Layer("BatchNorm1d", n, n)
ReLU == Layer("ReLU", 0, 0)

Last(s) == s[Len(s)]

\* All sequences over S of a length in lens.
Lists(S, lens) == UNION { [1..n -> S] : n \in lens }

\* str(n)
str(n) == ToString(n)

RECURSIVE map_str(_)
map_str(s) == IF s = <<>> THEN <<>> ELSE <<str(Head(s))>> \o map_str(Tail(s))

\* sep.join(strs): a string is the sequence of its pieces.
RECURSIVE join(_, _)
join(sep, strs) ==
    IF Len(strs) = 0 THEN <<>>
    ELSE IF Len(strs) = 1 THEN <<strs[1]>>
    ELSE <<strs[1], sep>> \o join(sep, Tail(strs))

-----------------------------------------------------------------------------
\* copy.deepcopy(heap[ref]): a new object with the same value.

deepcopy_alias(h, ref) == [heap |-> h, ref |-> ref]

deepcopy(h, ref) == [heap |-> Append(h, h[ref]), ref |-> Len(h) + 1]

\* heap[ref].insert(0, x)
insert0(h, ref, x) ==
    [h EXCEPT ![ref] = List(<<x>> \o h[ref].items)]

-----------------------------------------------------------------------------
\* get_sinusoid_encoding_table: the table is its rows' positions and its width.
\* np.array of an empty list of rows is one-dimensional, and the column slice of
\* line 27 then raises IndexError.

get_sinusoid_encoding_table(positions, d_hid) ==
    LET rows == IF positions.kind = "int"
                THEN [i \in 1..positions.n |-> i - 1]
                ELSE positions.items
    IN [raised |-> Len(rows) = 0, isNone |-> FALSE, rows |-> rows, d_hid |-> d_hid]

NoTable == [raised |-> FALSE, isNone |-> TRUE, rows |-> <<>>, d_hid |-> 0]

-----------------------------------------------------------------------------
\* get_decoder

RECURSIVE decoder_loop_norm_last(_, _, _)
decoder_loop_norm_last(n_neurons, i, layers) ==
    IF i >= Len(n_neurons) - 1 THEN layers
    ELSE decoder_loop_norm_last(n_neurons, i + 1,
            Append(layers, Linear(n_neurons[i + 1], n_neurons[i + 2]))
            \o <<BatchNorm1d(n_neurons[i + 2]), ReLU>>)

get_decoder_norm_last(n_neurons) == decoder_loop_norm_last(n_neurons, 0, <<>>)

\* The loop of lines 44-50; i is the loop index of the source (from 0).
RECURSIVE decoder_loop(_, _, _)
decoder_loop(n_neurons, i, layers) ==
    IF i >= Len(n_neurons) - 1 THEN layers
    ELSE LET l1 == Append(layers, Linear(n_neurons[i + 1], n_neurons[i + 2]))
             l2 == IF i < Len(n_neurons) - 2
                   THEN l1 \o <<BatchNorm1d(n_neurons[i + 2]), ReLU>>
                   ELSE l1
         IN decoder_loop(n_neurons, i + 1, l2)

get_decoder(n_neurons) == decoder_loop(n_neurons, 0, <<>>)

-----------------------------------------------------------------------------
\* The two stacks of TempConv.__init__

\* The loop of lines 75-80 over self.nker (after the insert).
RECURSIVE conv_loop(_, _, _)
conv_loop(nker, i, conv_layers) ==
    IF i >= Len(nker) - 1 THEN conv_layers
    ELSE conv_loop(nker, i + 1,
            conv_layers \o <<Conv1d(nker[i + 1], nker[i + 2]),
                             BatchNorm1d(nker[i + 2]),
                             ReLU>>)

conv_layers_of(nker) == conv_loop(nker, 0, <<>>)

\* The loop of lines 85-90 over self.nfc (after the insert).
RECURSIVE lin_loop(_, _, _)
lin_loop(nfc, i, lin_layers) ==
    IF i >= Len(nfc) - 1 THEN lin_layers
    ELSE lin_loop(nfc, i + 1,
            lin_layers \o <<Linear(nfc[i + 1], nfc[i + 2]),
                            BatchNorm1d(nfc[i + 2]),
                            ReLU>>)

lin_layers_raw_last(nfc) == get_decoder(nfc)

lin_layers_of(nfc) == lin_loop(nfc, 0, <<>>)

-----------------------------------------------------------------------------
\* The forward data path, on shapes. A running state st is
\* [ok, shape, applied, bn_updates]: whether no layer has raised, the shape of
\* the current tensor, the number of layers applied, and the number of
\* normalization layers that have updated their batch statistics.

Fail(st) == [st EXCEPT !.ok = FALSE]
Step(st, shape) == [st EXCEPT !.shape = shape, !.applied = @ + 1]

\* One layer of an nn.Sequential. Conv1d wants its in_channels at axis 1 and
\* yields length L + 2*padding - kernel_size + 1; Linear wants its in_features
\* at the last axis; BatchNorm1d in training mode counts the batch, then wants
\* more than one value per channel.
ApplyLayer(l, st) ==
    LET x == st.shape
    IN CASE l.op = "Conv1d" ->
              LET L_out == x[3] + 2 * padding - kernel_size + 1
              IN IF Len(x) = 3 /\ x[2] = l.in_f /\ L_out >= 1
                 THEN Step(st, <<x[1], l.out_f, L_out>>)
                 ELSE Fail(st)
         [] l.op = "Linear" ->
              IF Last(x) = l.in_f
              THEN Step(st, [x EXCEPT ![Len(x)] = l.out_f])
              ELSE Fail(st)
         [] l.op = "BatchNorm1d" ->
              LET per_channel == IF Len(x) = 3 THEN x[1] * x[3] ELSE x[1]
                  counted == [st EXCEPT !.bn_updates = @ + 1]
              IN IF x[2] # l.in_f THEN Fail(st)
                 ELSE IF per_channel <= 1 THEN Fail(counted)
                 ELSE Step(counted, x)
         [] OTHER -> Step(st, x)

\* nn.Sequential(*layers)(x): the layers in order, until one raises.
RECURSIVE Sequential(_, _, _)
Sequential(layers, i, st) ==
    IF i > Len(layers) \/ ~st.ok THEN st
    ELSE Sequential(layers, i + 1, ApplyLayer(layers[i], st))

\* torch.arange(1, seq_len + 1)
arange_from_zero(seq_len) == [i \in 1..seq_len |-> i - 1]

arange(seq_len) == [i \in 1..seq_len |-> i]

\* The embedding lookup raises unless every index is a row of the table.
ValidIndex(table, idx) == idx >= 0 /\ idx < Len(table.rows)

\* input + self.position_enc(src_pos): the last axes broadcast when they are
\* equal or one of them is 1.
Broadcastable(a, b) == a = b \/ a = 1 \/ b = 1
BroadcastDim(a, b) == IF a = 1 THEN b ELSE a

\* enc_output.permute(0, 2, 1)
permute_identity(x) == x

permute(x) == <<x[1], x[3], x[2]>>

\* out.view(out.shape[0], -1)
view(x) == <<x[1], x[2] * x[3]>>

\* The whole of forward(input) for an input of shape <<sz_b, seq_len, C>>.
forward_eval(m, input) ==
    LET sz_b == input[1]
        seq_len == input[2]
        enabled == ~m.position_enc.isNone
        src_pos == IF enabled THEN arange(seq_len) ELSE <<>>
        lookup_ok == \A i \in 1..Len(src_pos) : ValidIndex(m.position_enc, src_pos[i])
        add_ok == Broadcastable(input[3], m.position_enc.d_hid)
        enc_output == IF enabled
                      THEN <<sz_b, seq_len, BroadcastDim(input[3], m.position_enc.d_hid)>>
                      ELSE input
        st0 == [ok |-> TRUE, shape |-> permute(enc_output),
                applied |-> 0, bn_updates |-> 0]
        s1 == Sequential(m.conv1d, 1, st0)                           \* line 108
        s2 == Sequential(m.linear, 1, [s1 EXCEPT !.shape = view(@)]) \* lines 109-110
        s3 == Sequential(m.decoder, 1, s2)                           \* line 111
        Raised(stage, st) ==
            [status |-> "error", input |-> input, shape |-> <<>>, stage |-> stage,
             src_pos |-> src_pos, applied |-> st.applied, bn_updates |-> st.bn_updates]
        none == [applied |-> 0, bn_updates |-> 0]
    IN IF enabled /\ ~lookup_ok THEN Raised("position_enc", none)
       ELSE IF enabled /\ ~add_ok THEN Raised("add", none)
       ELSE IF ~s1.ok THEN Raised("conv1d", s1)
       ELSE IF ~s2.ok THEN Raised("linear", s2)
       ELSE IF ~s3.ok THEN Raised("decoder", s3)
       ELSE [status |-> "ok", input |-> input, shape |-> s3.shape, stage |-> "",
             src_pos |-> src_pos, applied |-> s3.applied, bn_updates |-> s3.bn_updates]

\* model(input) on a constructed model, for any three-axis input.
forward ==
    /\ pc = "built"
    /\ \E sz_b \in 1..MaxDim, seq_len \in 1..MaxDim, C \in 1..MaxDim :
           res' = forward_eval(self, <<sz_b, seq_len, C>>)
    /\ UNCHANGED <<args, heap, pc, self>>

-----------------------------------------------------------------------------
\* TempConv.__init__

NoSelf ==
    [input_size |-> 0, seq_len |-> 0, training |-> FALSE, name |-> <<>>,
     nker |-> 0, nfc |-> 0,
     decoder |-> <<>>, conv1d |-> <<>>, linear |-> <<>>,
     position_enc |-> NoTable]

NoRes ==
    [status |-> "none", input |-> <<>>, shape |-> <<>>, stage |-> "",
     src_pos |-> <<>>, applied |-> 0, bn_updates |-> 0]

\* The whole constructor. It raises at line 83 when nfc is None (None has no
\* insert) and at line 95 when the position table has no row; the object is then
\* left as far as it was built and is not returned.
TempConv_init ==
    /\ pc = "new"
    /\ LET c1 == deepcopy(heap, args.nker)                          \* line 65
           c2 == deepcopy(c1.heap, args.nfc)                        \* line 66
           h2 == c2.heap
           name1 == <<"TempCNN_">>
                    \o join("|", map_str(h2[c1.ref].items))         \* lines 63, 67
           decoder == get_decoder(args.mlp4)                        \* line 68
           name2 == IF ~h2[c2.ref].isNone                           \* lines 69-71
                    THEN name1 \o <<"FC">> \o join("|", map_str(h2[c2.ref].items))
                    ELSE name1
           h3 == insert0(h2, c1.ref, args.input_size)               \* line 74
           conv1d == conv_layers_of(h3[c1.ref].items)               \* lines 75-81
           nfc_raises == h3[c2.ref].isNone                          \* line 83
           h4 == IF nfc_raises THEN h3
                 ELSE insert0(h3, c2.ref, Last(h3[c1.ref].items) * args.seq_len)
           linear == IF nfc_raises THEN <<>>
                     ELSE lin_layers_of(h4[c2.ref].items)           \* lines 84-91
           table == IF args.positions.kind # "None"                 \* lines 93-98
                    THEN get_sinusoid_encoding_table(args.positions, args.input_size)
                    ELSE NoTable
           raises == nfc_raises \/ table.raised
       IN /\ heap' = h4
          /\ self' = [input_size |-> args.input_size,               \* lines 60-62
                      seq_len |-> args.seq_len,
                      training |-> TRUE,
                      name |-> name2,
                      nker |-> c1.ref,
                      nfc |-> c2.ref,
                      decoder |-> decoder,
                      conv1d |-> conv1d,
                      linear |-> linear,
                      position_enc |-> IF raises THEN NoTable ELSE table]
          /\ pc' = IF raises THEN "failed" ELSE "built"
    /\ UNCHANGED <<args, res>>

-----------------------------------------------------------------------------
\* Initial states: the call TempConv(input_size, nker, seq_len, nfc, mlp4, positions)
\* about to be made. heap[1] and heap[2] are the caller's nker and nfc.

NoPositions == [kind |-> "None", n |-> 0, items |-> <<>>]
IntPositions(n) == [kind |-> "int", n |-> n, items |-> <<>>]
ListPositions(s) == [kind |-> "list", n |-> 0, items |-> s]

Start(input_size, nker, seq_len, nfc, mlp4, positions) ==
    /\ args = [input_size |-> input_size, nker |-> 1, seq_len |-> seq_len,
               nfc |-> 2, mlp4 |-> mlp4, positions |-> positions,
               nker0 |-> nker, nfc0 |-> nfc]
    /\ heap = <<List(nker), nfc>>
    /\ pc = "new"
    /\ self = NoSelf
    /\ res = NoRes

\* Decoder runs: every mlp4 up to MaxDec widths, the rest of the call fixed.
InitDecoder ==
    \E mlp4 \in Lists(1..MaxWidth, 0..MaxDec) :
        Start(2, <<2>>, 2, List(<<3>>), mlp4, NoPositions)

\* Stack runs: every nker and nfc (a list or None), input_size and seq_len.
InitStacks ==
    \E input_size \in 1..MaxWidth, seq_len \in 1..MaxSeq,
       nker \in Lists(1..MaxWidth, 0..MaxLen),
       nfc \in {None} \cup { List(s) : s \in Lists(1..MaxWidth, 0..MaxLen) } :
        Start(input_size, nker, seq_len, nfc, <<2, 3>>, NoPositions)

\* Forward runs: the configurations the constructor's contract allows (nker of
\* one width, nfc empty or of one width, mlp4 of two widths), with and without
\* position encoding.
PositionChoices ==
    {NoPositions}
    \cup { IntPositions(n) : n \in 0..(MaxDim + 1) }
    \cup { ListPositions([i \in 1..n |-> 2 * i]) : n \in 0..(MaxDim + 1) }

Init ==
    \E input_size \in 1..MaxDim, seq_len \in 1..MaxDim,
       nker \in Lists(1..MaxDim, {1}),
       nfc \in Lists(1..MaxDim, {0, 1}),
       mlp4 \in Lists(1..MaxDim, {2}),
       positions \in PositionChoices :
        Start(input_size, nker, seq_len, List(nfc), mlp4, positions)

\* Plain forward runs: deeper stacks (nker of two widths, nfc empty or of one
\* width, mlp4 of three widths), position encoding disabled.
InitPlain ==
    \E input_size \in 1..MaxDim, seq_len \in 1..MaxDim,
       nker \in Lists(1..MaxDim, {2}),
       nfc \in Lists(1..MaxDim, {0, 1}),
       mlp4 \in Lists(1..MaxDim, {3}) :
        Start(input_size, nker, seq_len, List(nfc), mlp4, NoPositions)

Next == TempConv_init \/ forward

Spec == Init /\ [][Next]_vars
SpecPlain == InitPlain /\ [][Next]_vars

NextBuild == TempConv_init

SpecDecoder == InitDecoder /\ [][NextBuild]_vars
SpecStacks == InitStacks /\ [][NextBuild]_vars

-----------------------------------------------------------------------------
\* What the claims speak of

Range(s) == { s[i] : i \in 1..Len(s) }

nker0 == args.nker0
nfc0 == args.nfc0

\* The widths each stack is built over, written from the arguments.
ConvChain == <<args.input_size>> \o nker0
FcIn == Last(ConvChain) * args.seq_len
FcChain == <<FcIn>> \o nfc0.items
FcOut == Last(FcChain)

\* values joined by "|", written by position.
Joined(vals) ==
    [j \in 1..(IF Len(vals) = 0 THEN 0 ELSE 2 * Len(vals) - 1) |->
        IF j % 2 = 1 THEN ToString(vals[(j + 1) \div 2]) ELSE "|"]

\* A stack in which every transform is followed by normalization and ReLU.
AllNormalized(layers, op, chain) ==
    /\ Len(layers) = 3 * (Len(chain) - 1)
    /\ Cardinality({ j \in 1..Len(layers) : layers[j].op = op }) = Len(chain) - 1
    /\ \A i \in 1..(Len(chain) - 1) :
          /\ layers[3 * i - 2] = Layer(op, chain[i], chain[i + 1])
          /\ layers[3 * i - 1] = BatchNorm1d(chain[i + 1])
          /\ layers[3 * i] = ReLU

\* C1: for a width list of length L >= 2 the decoder holds exactly L-1 affine
\* transforms, transform i mapping widths[i] to widths[i+1]; each of the first
\* L-2 is followed by a normalization over widths[i+1] and a ReLU, and the last
\* one by nothing.
Thm_C1_DecoderLastRaw ==
    (pc # "new" /\ Len(args.mlp4) >= 2) =>
        LET w == args.mlp4
            L == Len(w)
            d == self.decoder
        IN /\ Cardinality({ j \in 1..Len(d) : d[j].op = "Linear" }) = L - 1
           /\ Len(d) = 3 * (L - 2) + 1
           /\ \A i \in 1..(L - 2) :
                 /\ d[3 * i - 2] = Linear(w[i], w[i + 1])
                 /\ d[3 * i - 1] = BatchNorm1d(w[i + 1])
                 /\ d[3 * i] = ReLU
           /\ d[Len(d)] = Linear(w[L - 1], w[L])

Wit_C1_DecoderOfFour ==
    /\ pc = "built"
    /\ Len(args.mlp4) = 4
    /\ Len(self.decoder) = 7
    /\ self.decoder[2].op = "BatchNorm1d"
    /\ self.decoder[7].op = "Linear"

\* C2: with nker of length k >= 1 and nfc a list of length m >= 0, the
\* convolution stack holds exactly k convolutions chaining
\* input_size -> nker[0] -> ... -> nker[k-1] and the fully-connected stack
\* exactly m transforms chaining nker[k-1]*seq_len -> nfc[0] -> ... -> nfc[m-1];
\* every one of them, the last included, is followed by normalization and
\* ReLU; with m = 0 the fully-connected stack is empty and its width list has
\* length 1.
Thm_C2_StacksAllNormalized ==
    (pc = "built" /\ Len(nker0) >= 1) =>
        /\ AllNormalized(self.conv1d, "Conv1d", ConvChain)
        /\ AllNormalized(self.linear, "Linear", FcChain)
        /\ nfc0.items = <<>> =>
              /\ self.linear = <<>>
              /\ Len(heap[self.nfc].items) = 1

Wit_C2_TwoAndTwo ==
    /\ pc = "built"
    /\ Len(nker0) = 2
    /\ Len(nfc0.items) = 2
    /\ Len(self.conv1d) = 6
    /\ Len(self.linear) = 6

\* C3: construction leaves the caller's nker and nfc as they were passed; each
\* of the model's own width lists is the caller's with exactly one input width
\* inserted at position 0; the name is built from the values before insertion.
Thm_C3_CallerListsKept ==
    /\ heap[args.nker] = List(nker0)
    /\ heap[args.nfc] = nfc0
    /\ pc = "built" =>
          /\ heap[self.nker].items = <<args.input_size>> \o nker0
          /\ heap[self.nfc].items = <<FcIn>> \o nfc0.items
    /\ pc # "new" =>
          self.name = <<"TempCNN_">> \o Joined(nker0)
                      \o (IF nfc0.isNone THEN <<>> ELSE <<"FC">> \o Joined(nfc0.items))

Wit_C3_InsertedWidthsDiffer ==
    /\ pc = "built"
    /\ Len(nker0) = 2
    /\ Len(nfc0.items) = 1
    /\ args.input_size # nker0[1]
    /\ FcIn # nfc0.items[1]
    /\ Len(heap[self.nker].items) = 3

\* C8: get_decoder fails, and so does construction, whenever the width list has
\* fewer than 2 elements.
Cex_C8_ShortDecoderRejected ==
    (pc # "new" /\ Len(args.mlp4) < 2) => pc = "failed"

\* C9: construction fails whenever nker is empty; no model with a convolution
\* stack of zero transforms is ever constructed.
Cex_C9_EmptyNkerRejected ==
    /\ (pc # "new" /\ nker0 = <<>>) => pc = "failed"
    /\ pc = "built" => self.conv1d # <<>>

\* C10: with nfc None and the rest valid, construction succeeds, the
\* fully-connected width list has length 1, the stack has no transform and the
\* name carries no "FC".
Cex_C10_NoneNfcBuilds ==
    (pc # "new" /\ nfc0.isNone /\ Len(nker0) >= 1) =>
        /\ pc = "built"
        /\ Len(heap[self.nfc].items) = 1
        /\ self.linear = <<>>
        /\ "FC" \notin Range(self.name)
-----------------------------------------------------------------------------
\* Forward calls

Called == res.status # "none"
Enabled == args.positions.kind # "None"
TableRows == IF args.positions.kind = "int" THEN args.positions.n
             ELSE Len(args.positions.items)
sz_b == res.input[1]

\* The input has the shape the model was configured for.
WellShaped == res.input[2] = args.seq_len /\ res.input[3] = args.input_size

\* The decoder's input width is the width the fully-connected stack delivers.
DecoderFits == args.mlp4[1] = FcOut

\* C4, as stated: with position encoding disabled, every input of shape
\* (B, seq_len, input_size) with B >= 2 yields an output of shape (B, mlp4[-1]).
Cex_C4_ForwardShape ==
    (Called /\ ~Enabled /\ WellShaped /\ sz_b >= 2) =>
        /\ res.status = "ok"
        /\ res.shape = <<sz_b, Last(args.mlp4)>>

\* C4, amended: the same, for the configurations whose mlp4[0] equals the
\* output width of the fully-connected stack (nfc[-1], or nker[-1]*seq_len when
\* nfc is empty).
Thm_C4_ForwardShapeWhenDecoderFits ==
    (Called /\ ~Enabled /\ WellShaped /\ sz_b >= 2 /\ DecoderFits) =>
        /\ res.status = "ok"
        /\ res.shape = <<sz_b, Last(args.mlp4)>>

Wit_C4_BatchOfTwo ==
    /\ Called /\ ~Enabled /\ WellShaped /\ DecoderFits
    /\ sz_b = 2
    /\ args.seq_len = 2
    /\ args.input_size = 1
    /\ Len(nker0) = 2
    /\ Len(nfc0.items) = 1
    /\ Len(args.mlp4) = 3
    /\ res.status = "ok"
    /\ res.shape = <<2, Last(args.mlp4)>>

\* C5, as stated: with a table of at least seq_len rows, a well-shaped call
\* looks up exactly the indices 1..seq_len, each a row of the table, and raises
\* nothing. (The batch and the decoder are taken as C4 needs them, so that only
\* the lookup can fail.)
Cex_C5_LookupWithinTable ==
    (Called /\ Enabled /\ TableRows >= args.seq_len /\ WellShaped
        /\ sz_b >= 2 /\ DecoderFits) =>
        /\ res.src_pos = [i \in 1..args.seq_len |-> i]
        /\ \A i \in 1..Len(res.src_pos) : res.src_pos[i] < TableRows
        /\ res.status = "ok"

\* C5, amended: with a table of at least seq_len + 1 rows, a well-shaped call
\* looks up exactly the indices 1..seq_len, each a row of the table, and
\* neither the lookup nor the addition raises; the call raises nothing when
\* moreover B >= 2 and mlp4[0] is the fully-connected output width.
Thm_C5_LookupWithinLargerTable ==
    (Called /\ Enabled /\ TableRows >= args.seq_len + 1 /\ WellShaped) =>
        /\ res.src_pos = [i \in 1..args.seq_len |-> i]
        /\ \A i \in 1..Len(res.src_pos) :
              res.src_pos[i] >= 1 /\ res.src_pos[i] < TableRows
        /\ res.stage \notin {"position_enc", "add"}
        /\ (sz_b >= 2 /\ DecoderFits) => res.status = "ok"

Wit_C5_LastRowLookedUp ==
    /\ Called /\ Enabled /\ WellShaped
    /\ args.seq_len = 2
    /\ TableRows = 3
    /\ res.src_pos = <<1, 2>>
    /\ res.status = "ok"

\* C6: a call whose trailing dimension C differs from input_size ends in an
\* error, with position encoding enabled or not and for every C >= 1; the error
\* comes before any stage has been applied and leaves the model as it was.
\* (The rest of the call is taken as C4 needs it, so that only the channel
\* count is wrong.)
Cex_C6_WrongChannelsRejected ==
    (Called /\ res.input[3] # args.input_size
        /\ res.input[2] = args.seq_len /\ sz_b >= 2 /\ DecoderFits) =>
        /\ res.status = "error"
        /\ res.applied = 0
        /\ res.bn_updates = 0

\* C7: with position encoding enabled, a call whose sequence length differs
\* from seq_len ends in an error; it is never processed.
Cex_C7_WrongLengthRejected ==
    (Called /\ Enabled /\ res.input[2] # args.seq_len) => res.status = "error"

====
